---------------------------- MODULE Spec2Model ----------------------------
(***************************************************************************)
(* Model of src/app.py: a Flask proxy in front of the Spotify Web API.     *)
(*                                                                         *)
(* The program's state is the token cache kept by the SpotifyOAuth         *)
(* manager sp_oauth (app.py:26-31); every handler reaches it only through  *)
(* sp_oauth.get_cached_token (app.py:44), sp_oauth.get_access_token        *)
(* (app.py:77) and the client sp built on that manager (app.py:35).  The   *)
(* manager's behaviour at those call sites is modelled as spotipy 2.x      *)
(* implements it:                                                          *)
(*   - get_cached_token() = validate_token(cache.get()): None for an empty *)
(*     cache; a record that is_token_expired (expires_at - now < 60) is    *)
(*     refreshed with refresh_access_token, which saves the new record and *)
(*     returns it, or raises SpotifyOauthError when the token endpoint     *)
(*     rejects the refresh;                                                *)
(*   - get_access_token(code) has check_cache=True: it first validates the *)
(*     cached record as above and returns it when there is one; only with  *)
(*     an empty cache is the code POSTed to the token endpoint, the record *)
(*     saved and returned, or SpotifyOauthError raised on rejection;       *)
(*   - every sp.<operation>() builds its Authorization header with         *)
(*     get_access_token(as_dict=False), i.e. validates the cache again,    *)
(*     then sends the API request; a rejection raises SpotifyException.    *)
(* An exception no handler catches ends the request with Flask's 500.      *)
(* The development server (app.py:252) serves requests on threads, so the  *)
(* handlers are modelled step by step, one step per cache access or        *)
(* network round trip, and Slots requests may be in flight at once.        *)
(***************************************************************************)
EXTENDS Integers, FiniteSets, Sequences, TLC

\* ---------------------------------------------------------------- bounds
\* The clock runs over 0..MaxTime, in units of the manager's 60 s margin.
MaxTime == 2
\* Lifetime (expires_in) the token endpoint grants, in the same units.
ExpiresIn == 1
\* Tokens the token endpoint issues in one run.
MaxTokens == 2

\* Margin of is_token_expired behind get_cached_token: one clock unit.
SkewBuffer == 1

Slots == {1, 2}
Codes == {"c1", "c2"}

\* --------------------------------------------------------- request inputs
Absent == "<absent>"
Empty == ""
\* A request value its handler has not read yet.
Unread == "<unread>"

GatedRoutes == {"search", "track", "playlists", "add_to_playlist", "play", "queue"}
Routes == GatedRoutes \cup {"login", "callback"}

VARIABLES
    cache,      \* the manager's cached token_info; NoToken when there is none
    now,        \* time.time()
    codeState,  \* token endpoint: each authorization code unissued, live or used
    issued,     \* token endpoint: number of tokens issued so far
    reqs        \* per slot: the request in flight and its position

vars == <<cache, now, codeState, issued, reqs>>

NoToken == [access |-> 0, refresh |-> 0, expires_at |-> 0]

NoResp == [status |-> 0, body |-> "none"]

\* A slot with no request.  The fields from cache0 on record what the
\* request met and did, for the properties; no handler reads them.
IdleReq ==
    [pc |-> "idle", route |-> "none", input |-> Absent, error |-> Absent,
     phase |-> "none", tok |-> NoToken, resp |-> NoResp,
     cache0 |-> "none", codeLive0 |-> FALSE, replay |-> FALSE, gate |-> "none",
     exchOK |-> FALSE, nExchange |-> 0, nRefresh |-> 0, nRemote |-> 0, nPut |-> 0]

\* ------------------------------------------------------ response bodies
NotAuthenticatedMsg == "User not authenticated. Please log in via /login."
AuthenticatedMsg == "Authenticated successfully."
AuthFailedMsg == "Authentication failed."

\* The 'Missing ... parameter' body of each route that validates an input.
MissingMsg(route) ==
    CASE route = "search" -> "Missing query parameter"
      [] route = "add_to_playlist" -> "Missing track_ids parameter"
      [] route \in {"play", "queue"} -> "Missing track_id parameter"
      [] OTHER -> "none"

\* Routes whose handler validates a request value before its remote call.
RequiresInput(route) == route \in {"search", "add_to_playlist", "play", "queue"}

\* Routes whose remote call sits in try/except SpotifyException.
CatchesRemoteError(route) == route \in {"track", "add_to_playlist", "play", "queue"}

\* The values a request may carry for its input: /track/<id> always has
\* its path segment and /playlists reads nothing.
InputsOf(route) ==
    IF RequiresInput(route) THEN {Absent, Empty, "v"} ELSE {"v"}

ErrorValues == {Absent, Empty, "access_denied"}
CodeValues == {Absent, Empty} \cup Codes

\* ---------------------------------------------------------------- helpers
\* Python truthiness of a request value: None and "" (or []) are falsy.
Truthy(v) == v \notin {Absent, Empty}

\* Mutant of InputMissing: only a missing value counts, an empty one passes.
InputMissingAbsentOnly(v) == v = Absent
\* `if not query`, `if not track_ids`, `if not track_id`.
InputMissing(v) == ~Truthy(v)

\* Mutant of HasError: the error branch is never taken.
HasErrorNever(error) == FALSE
\* `if error:` of callback.
HasError(error) == Truthy(error)
\* Mutant of HasCode: the exchange is entered without testing the code.
HasCodeAlways(code) == TRUE
\* `if code:` of callback.
HasCode(code) == Truthy(code)

\* Mutant of is_token_expired: a cached record is taken as good whatever
\* its expires_at.
TokenNeverExpired(token_info, t) == FALSE
\* spotipy is_token_expired, reached from get_cached_token.
is_token_expired(token_info, t) == token_info.expires_at - t < SkewBuffer

CacheKind(c, t) ==
    IF c = NoToken THEN "empty"
    ELSE IF is_token_expired(c, t) THEN "expired" ELSE "valid"

\* Mutant of RefreshedToken: a response without refresh_token leaves none.
RefreshedTokenDropsRefresh(n, sent, rotate) ==
    [access |-> n, refresh |-> IF rotate THEN n ELSE 0, expires_at |-> 0]
\* The token_info refresh_access_token builds from an accepted refresh that
\* issued access token n: the rotated refresh token when the response
\* carries one, otherwise the one that was sent.
RefreshedToken(n, sent, rotate) ==
    [access |-> n, refresh |-> IF rotate THEN n ELSE sent, expires_at |-> 0]

\* Mutant of SavedRecord: the record is saved without its access token.
SavedRecordNoAccess(tok, old, t) ==
    [access |-> 0, refresh |-> tok.refresh, expires_at |-> t + ExpiresIn]
\* Mutant of SavedRecord: the old record's expires_at is kept.
SavedRecordStaleExpiry(tok, old, t) ==
    [access |-> tok.access, refresh |-> tok.refresh, expires_at |-> old.expires_at]
\* The record the manager saves after a token response received at time t,
\* over the cached record old: expires_at = int(time.time()) + expires_in.
SavedRecord(tok, old, t) ==
    [access |-> tok.access, refresh |-> tok.refresh, expires_at |-> t + ExpiresIn]

\* Mutant of Authenticated: the `if not token_info` test is lost.
AuthenticatedAlways(token_info) == TRUE
\* require_authentication: authenticated, from the token_info the manager
\* returned.
Authenticated(token_info) == token_info # NoToken

\* Mutant of GateRejects: the handler goes on whatever the gate said.
GateRejectsNever(authenticated) == FALSE
\* `if not authenticated: return ..., 401` at the head of each gated handler.
GateRejects(authenticated) == ~authenticated

Respond(q, status, body) ==
    [q EXCEPT !.pc = "done", !.resp = [status |-> status, body |-> body]]

\* Mutant of Unhandled: the failure is swallowed and the step is tried again.
UnhandledRetried(q, what) == q
\* An exception no handler catches: Flask answers 500.
Unhandled(q, what) == Respond(q, 500, what)

SuccessBody(route) ==
    CASE route = "search" -> "simplified_tracks"
      [] route = "track" -> "track"
      [] route = "playlists" -> "playlists"
      [] OTHER -> "success"

\* What a handler does with the token_info the manager returned.
AfterGate(q, token_info) ==
    LET authenticated == Authenticated(token_info)
        g == [q EXCEPT !.gate = IF token_info # NoToken THEN "passed" ELSE "failed"]
    IN  IF GateRejects(authenticated)
        THEN Respond(g, 401, NotAuthenticatedMsg)
        ELSE [g EXCEPT !.pc = "passed"]

\* The manager's validate_token on the cached record, begun at time t:
\* the record when valid, a refresh round trip when expired.
Validate(q, phase, whenNone, whenValid) ==
    CASE cache = NoToken -> whenNone
      [] cache # NoToken /\ is_token_expired(cache, now) ->
            [q EXCEPT !.pc = "refresh", !.phase = phase, !.tok = [NoToken EXCEPT !.refresh = cache.refresh]]
      [] OTHER -> whenValid

Begin(r, route, input, error) ==
    [IdleReq EXCEPT !.route = route, !.input = input, !.error = error,
                    !.cache0 = CacheKind(cache, now)]

\* A handler's return sends the response at once (Deliver), so no step is
\* taken while a finished request still holds its thread.
NoneDone == \A r \in Slots : reqs[r].pc # "done"

\* Code c was exchanged by an earlier /callback, which has since answered
\* 'Authenticated successfully.' (the answer follows the exchange at once).
Replayed(c) ==
    /\ c \in Codes
    /\ codeState[c] = "used"
    /\ \A o \in Slots : ~(reqs[o].route = "callback" /\ reqs[o].input = c)

CanStart(r) ==
    /\ NoneDone
    /\ reqs[r].pc = "idle"

Init ==
    /\ cache = NoToken
    /\ now = 0
    /\ codeState = [c \in Codes |-> "unissued"]
    /\ issued = 0
    /\ reqs = [r \in Slots |-> IdleReq]

\* ------------------------------------------------------------ environment
\* time.time() advances.
Tick ==
    /\ NoneDone
    /\ now < MaxTime
    /\ now' = now + 1
    /\ UNCHANGED <<cache, codeState, issued, reqs>>

\* The user consents at the authorization URL: the remote side issues code c.
IssueCode(c) ==
    /\ NoneDone
    /\ codeState[c] = "unissued"
    /\ codeState' = [codeState EXCEPT ![c] = "live"]
    /\ UNCHANGED <<cache, now, issued, reqs>>

\* --------------------------------------------------------------- handlers
\* Mutant of Login: the route is gated like the others.
LoginGated(r) ==
    /\ CanStart(r)
    /\ reqs' = [reqs EXCEPT ![r] =
            IF cache = NoToken
            THEN Respond(Begin(r, "login", Absent, Absent), 401, NotAuthenticatedMsg)
            ELSE Respond(Begin(r, "login", Absent, Absent), 302, "authorize_url")]
    /\ UNCHANGED <<cache, now, codeState, issued>>

\* GET /login: redirect to sp_oauth.get_authorize_url().
Login(r) ==
    /\ CanStart(r)
    /\ reqs' = [reqs EXCEPT ![r] =
            Respond(Begin(r, "login", Absent, Absent), 302, "authorize_url")]
    /\ UNCHANGED <<cache, now, codeState, issued>>

\* GET /callback, up to the first round trip of get_access_token(code).
Callback(r, code, error) ==
    /\ CanStart(r)
    /\ LET q == [Begin(r, "callback", code, error) EXCEPT
                    !.codeLive0 = (code \in Codes /\ codeState[code] = "live"),
                    !.replay = Replayed(code)]
           ok == Respond(q, 200, AuthenticatedMsg)
       IN  reqs' = [reqs EXCEPT ![r] =
                IF HasError(error) THEN Respond(q, 400, error)
                ELSE IF HasCode(code)
                THEN Validate(q, "callback",
                              [q EXCEPT !.pc = "exchange", !.phase = "callback"], ok)
                ELSE Respond(q, 400, AuthFailedMsg)]
    /\ UNCHANGED <<cache, now, codeState, issued>>

\* A gated handler up to the first round trip of require_authentication():
\* sp_oauth.get_cached_token() reads the cache as the request arrives.
GateRead(r, route) ==
    /\ CanStart(r)
    /\ LET q == Begin(r, route, Unread, Absent)
       IN  reqs' = [reqs EXCEPT ![r] =
                Validate(q, "gate", AfterGate(q, NoToken), AfterGate(q, cache))]
    /\ UNCHANGED <<cache, now, codeState, issued>>

\* refresh_access_token: the token endpoint answers the POST of the stored
\* refresh_token.  It accepts (ok) or rejects; accepting, it issues a new
\* access token and either rotates the refresh token or sends none, and
\* the manager then keeps the one it sent.  A rejection raises
\* SpotifyOauthError, which no handler of app.py catches.
Refresh(r, ok, rotate) ==
    LET q == reqs[r]
        n == issued + 1
        c == [q EXCEPT !.nRefresh = @ + 1]
    IN  /\ NoneDone
        /\ q.pc = "refresh"
        /\ IF ok
           THEN /\ issued < MaxTokens
                /\ issued' = n
                /\ reqs' = [reqs EXCEPT ![r] =
                        [c EXCEPT !.pc = "save",
                                  !.tok = RefreshedToken(n, q.tok.refresh, rotate)]]
           ELSE /\ issued' = issued
                /\ reqs' = [reqs EXCEPT ![r] = Unhandled(c, "SpotifyOauthError")]
        /\ UNCHANGED <<cache, now, codeState>>

\* get_access_token(code) with an empty cache: the token endpoint answers
\* the POST of the code.  It accepts a live code once, issuing an access
\* and a refresh token; anything else it rejects, which raises
\* SpotifyOauthError out of callback.
Exchange(r) ==
    LET q == reqs[r]
        n == issued + 1
        c == [q EXCEPT !.nExchange = @ + 1]
        accepted == q.input \in Codes /\ codeState[q.input] = "live"
    IN  /\ NoneDone
        /\ q.pc = "exchange"
        /\ IF accepted
           THEN /\ issued < MaxTokens
                /\ issued' = n
                /\ codeState' = [codeState EXCEPT ![q.input] = "used"]
                /\ reqs' = [reqs EXCEPT ![r] =
                        [c EXCEPT !.pc = "save", !.exchOK = TRUE,
                                  !.tok = [access |-> n, refresh |-> n,
                                           expires_at |-> 0]]]
           ELSE /\ UNCHANGED <<issued, codeState>>
                /\ reqs' = [reqs EXCEPT ![r] = Unhandled(c, "SpotifyOauthError")]
        /\ UNCHANGED <<cache, now>>

\* The token response arrives: the manager stamps expires_at, saves the
\* record to the cache and returns it to whoever asked.
Save(r) ==
    LET q == reqs[r]
        rec == SavedRecord(q.tok, cache, now)
        c == [q EXCEPT !.nPut = @ + 1, !.tok = NoToken]
    IN  /\ NoneDone
        /\ q.pc = "save"
        /\ cache' = rec
        /\ reqs' = [reqs EXCEPT ![r] =
                CASE q.phase = "gate" -> AfterGate(c, rec)
                  [] q.phase = "client" -> [c EXCEPT !.pc = "call"]
                  [] OTHER -> Respond(c, 200, AuthenticatedMsg)]
        /\ UNCHANGED <<now, codeState, issued>>

\* A gated handler after the gate: read and validate the request value
\* (request.args.get / request.json.get), then enter
\* sp.<operation>(), whose header needs get_access_token(as_dict=False).
\* With no cached token that call would start the interactive flow and
\* never return.
Proceed(r, input) ==
    LET q == [reqs[r] EXCEPT !.input = input]
    IN  /\ NoneDone
        /\ q.pc = "passed"
        /\ input \in InputsOf(q.route)
        /\ reqs' = [reqs EXCEPT ![r] =
                IF RequiresInput(q.route) /\ InputMissing(input)
                THEN Respond(q, 400, MissingMsg(q.route))
                ELSE Validate(q, "client", [q EXCEPT !.pc = "blocked"],
                              [q EXCEPT !.pc = "call"])]
        /\ UNCHANGED <<cache, now, codeState, issued>>

\* The Web API answers the operation's request: a payload, or a rejection
\* that surfaces as SpotifyException.
Call(r, ok) ==
    LET q == reqs[r]
        c == [q EXCEPT !.nRemote = @ + 1]
    IN  /\ NoneDone
        /\ q.pc = "call"
        /\ reqs' = [reqs EXCEPT ![r] =
                IF ok THEN Respond(c, 200, SuccessBody(q.route))
                ELSE IF CatchesRemoteError(q.route)
                THEN Respond(c, 400, "SpotifyException")
                ELSE Unhandled(c, "SpotifyException")]
        /\ UNCHANGED <<cache, now, codeState, issued>>

\* The response leaves; the serving thread is free again.
Deliver(r) ==
    /\ reqs[r].pc = "done"
    /\ reqs' = [reqs EXCEPT ![r] = IdleReq]
    /\ UNCHANGED <<cache, now, codeState, issued>>

Next ==
    \/ Tick
    \/ \E c \in Codes : IssueCode(c)
    \/ \E r \in Slots : Login(r)
    \/ \E r \in Slots, code \in CodeValues, error \in ErrorValues : Callback(r, code, error)
    \/ \E r \in Slots, route \in GatedRoutes : GateRead(r, route)
    \/ \E r \in Slots, ok \in BOOLEAN, rotate \in BOOLEAN : Refresh(r, ok, rotate)
    \/ \E r \in Slots : Exchange(r)
    \/ \E r \in Slots : Save(r)
    \/ \E r \in Slots, input \in {Absent, Empty, "v"} : Proceed(r, input)
    \/ \E r \in Slots, ok \in BOOLEAN : Call(r, ok)
    \/ \E r \in Slots : Deliver(r)

Spec == Init /\ [][Next]_vars

\* ------------------------------------------------------------- properties
Gated(q) == q.route \in GatedRoutes
IsCallback(q) == q.route = "callback"
Done(q) == q.pc = "done"
NoTokenTraffic(q) == q.nExchange = 0 /\ q.nRefresh = 0 /\ q.nPut = 0

\* C1: a request to a gated route that arrives at an empty TokenCache is
\* answered 401 'User not authenticated...' and makes no remote call of any
\* kind: no API operation, no refresh, no exchange.
C1_EmptyCacheIs401 ==
    \A r \in Slots :
        LET q == reqs[r]
        IN  (Gated(q) /\ q.cache0 = "empty") =>
                /\ Done(q)
                /\ q.resp = [status |-> 401, body |-> NotAuthenticatedMsg]
                /\ q.nRemote = 0
                /\ NoTokenTraffic(q)

C1_Witness ==
    \E r \in Slots :
        /\ reqs[r].route = "queue"
        /\ reqs[r].cache0 = "empty"
        /\ reqs[r].resp.status = 401

\* C2: a request is inside sp.<operation>() (building its header, sending
\* the API request, or past it) only on a gated route and only after
\* require_authentication returned a token to this same request.
C2_RemoteOnlyAfterGate ==
    \A r \in Slots :
        LET q == reqs[r]
        IN  (q.pc \in {"call", "blocked"} \/ q.phase = "client" \/ q.nRemote > 0) =>
                /\ Gated(q)
                /\ q.gate = "passed"

C2_Witness ==
    \E r \in Slots :
        /\ Done(reqs[r])
        /\ reqs[r].nRemote = 1
        /\ reqs[r].gate = "passed"

\* C3: a gated request that arrives at an expired record whose refreshes
\* the token endpoint accepts is never answered 401: the gate refreshed and
\* passed, and the request ends as it would with a valid token (the
\* operation's success response unless its input is missing or the API
\* rejects the operation).
C3_RefreshedRequestProceeds ==
    \A r \in Slots :
        LET q == reqs[r]
        IN  (Gated(q) /\ q.cache0 = "expired" /\ Done(q)
                /\ q.resp.body # "SpotifyOauthError") =>
                /\ q.resp.status # 401
                /\ q.gate = "passed"
                /\ q.nRefresh >= 1
                /\ q.nPut = q.nRefresh
                /\ (q.resp.body \notin {MissingMsg(q.route), "SpotifyException"} =>
                        /\ q.resp = [status |-> 200, body |-> SuccessBody(q.route)]
                        /\ q.nRemote = 1)

\* ... and the step that ends the gate's refresh leaves in TokenCache the
\* new access token with the new expiry, not expired, and passes the gate.
C3_GateSaveStep ==
    \A r \in Slots :
        (reqs[r].pc = "save" /\ reqs[r].phase = "gate" /\ reqs'[r].pc # "save") =>
            /\ cache'.access = reqs[r].tok.access
            /\ cache'.access # cache.access
            /\ cache'.refresh = reqs[r].tok.refresh
            /\ cache'.expires_at = now + ExpiresIn
            /\ ~is_token_expired(cache', now)
            /\ reqs'[r].pc = "passed"

C3_ExpiredRefreshSucceeds == [](C3_RefreshedRequestProceeds) /\ [][C3_GateSaveStep]_vars

C3_Witness ==
    \E r \in Slots :
        /\ Gated(reqs[r])
        /\ reqs[r].cache0 = "expired"
        /\ reqs[r].nRefresh = 1
        /\ reqs[r].resp = [status |-> 200, body |-> SuccessBody(reqs[r].route)]

\* C4: a gated request that arrives at an expired record whose refresh the
\* token endpoint rejects is answered 401, after one refresh attempt and
\* no API operation.
C4_RefreshRejectedIs401 ==
    \A r \in Slots :
        LET q == reqs[r]
        IN  (Gated(q) /\ q.cache0 = "expired" /\ Done(q) /\ q.gate # "passed") =>
                /\ q.resp.status = 401
                /\ q.nRefresh = 1
                /\ q.nRemote = 0
                /\ q.nPut = 0

\* C5: a /callback carrying a code that an earlier /callback succeeded
\* with is answered 400, not 'Authenticated successfully.'.
C5_ReplayFails ==
    \A r \in Slots :
        LET q == reqs[r]
        IN  (IsCallback(q) /\ Done(q) /\ q.replay) =>
                /\ q.resp.status = 400
                /\ q.resp.body # AuthenticatedMsg

\* C6 as claimed: a /callback whose query has an error parameter, empty or
\* not, is answered 400 with that value and touches neither the token
\* endpoint nor TokenCache.
C6_AnyErrorParamIs400 ==
    \A r \in Slots :
        LET q == reqs[r]
        IN  (IsCallback(q) /\ q.error # Absent) =>
                /\ Done(q)
                /\ q.resp = [status |-> 400, body |-> q.error]
                /\ NoTokenTraffic(q)

\* C6 as amended: a /callback whose query has a non-empty error parameter,
\* with or without a code, is answered 400 with that value and touches
\* neither the token endpoint nor TokenCache.
C6_ErrorParamIs400 ==
    \A r \in Slots :
        LET q == reqs[r]
        IN  (IsCallback(q) /\ Truthy(q.error)) =>
                /\ Done(q)
                /\ q.resp = [status |-> 400, body |-> q.error]
                /\ NoTokenTraffic(q)

C6_Witness ==
    \E r \in Slots :
        /\ IsCallback(reqs[r])
        /\ reqs[r].error = "access_denied"
        /\ reqs[r].input \in Codes
        /\ codeState[reqs[r].input] = "live"
        /\ reqs[r].resp.status = 400

\* C7: a /callback with neither code nor error is answered 400
\* 'Authentication failed.' and touches neither the token endpoint nor
\* TokenCache.
C7_NeitherParamIs400 ==
    \A r \in Slots :
        LET q == reqs[r]
        IN  (IsCallback(q) /\ q.input = Absent /\ q.error = Absent) =>
                /\ Done(q)
                /\ q.resp = [status |-> 400, body |-> AuthFailedMsg]
                /\ NoTokenTraffic(q)

C7_Witness ==
    \E r \in Slots :
        /\ IsCallback(reqs[r])
        /\ reqs[r].input = Absent
        /\ reqs[r].error = Absent
        /\ reqs[r].resp.status = 400

\* The token endpoint would accept the code of finished /callback q: it
\* was live when q arrived and nobody but q has exchanged it.
CodeAcceptable(q) ==
    /\ q.codeLive0
    /\ (codeState[q.input] = "live" \/ q.exchOK)

\* C8: a /callback with a code the token endpoint accepts, whatever the
\* cache held, exchanges the code, writes the record obtained to
\* TokenCache and answers 'Authenticated successfully.'.
C8_AcceptedCodeIsExchanged ==
    \A r \in Slots :
        LET q == reqs[r]
        IN  (IsCallback(q) /\ Done(q) /\ ~Truthy(q.error) /\ CodeAcceptable(q)) =>
                /\ q.nExchange = 1
                /\ q.exchOK
                /\ q.nPut >= 1
                /\ q.resp = [status |-> 200, body |-> AuthenticatedMsg]

\* C9: a /callback with a code the token endpoint rejects is answered 400
\* after exactly one exchange attempt and leaves TokenCache alone.
C9_RejectedCodeIs400 ==
    \A r \in Slots :
        LET q == reqs[r]
        IN  (IsCallback(q) /\ Done(q) /\ ~Truthy(q.error) /\ Truthy(q.input)
                /\ ~q.codeLive0 /\ ~q.exchOK) =>
                /\ q.resp.status = 400
                /\ q.nExchange = 1
                /\ q.nPut = 0

C11_RemoteRejectionIs400 ==
    \A r \in Slots :
        LET q == reqs[r]
        IN  (Gated(q) /\ Done(q) /\ q.nRemote = 1 /\ q.resp.body = "SpotifyException") =>
                q.resp.status = 400

C13_FreshAtStep ==
    \A r \in Slots :
        (\/ reqs'[r].pc = "passed" /\ reqs[r].pc # "passed"
         \/ reqs'[r].pc = "call" /\ reqs[r].pc # "call") =>
            /\ cache' # NoToken
            /\ cache'.access > 0
            /\ cache'.expires_at > now'

C13_GateRevalidates == [][C13_FreshAtStep]_vars

\* A request that found the record of an earlier login expired and is
\* about to send its operation under a refreshed one.
C13_Witness ==
    \E r \in Slots :
        /\ reqs[r].pc = "call"
        /\ reqs[r].cache0 = "expired"
        /\ reqs[r].nRefresh >= 1
        /\ cache.expires_at > now

\* C14: of two gated requests that met the same expired record, at most
\* one sends a refresh to the token endpoint, and once both are through
\* TokenCache holds the record of the latest token issued.
C14_RefreshSerialized ==
    \A r1, r2 \in Slots :
        LET a == reqs[r1]
            b == reqs[r2]
        IN  (r1 # r2 /\ Gated(a) /\ Gated(b)
                /\ a.cache0 = "expired" /\ b.cache0 = "expired") =>
                /\ (a.nPut = 0 /\ b.nPut = 0 => a.nRefresh + b.nRefresh <= 1)
                /\ ({a.pc, b.pc} \cap {"refresh", "save"} = {} => cache.access = issued)


\* C15: a stored record always carries an access token and a refresh
\* token, and once TokenCache holds a record no step of any request
\* (login, any callback branch, any gated operation, a refresh accepted or
\* rejected) empties it: the record changes only by a save of a new one.
C15_CacheKept ==
    cache # NoToken => cache.access > 0 /\ cache.refresh > 0

C15_CacheStep ==
    /\ (cache # NoToken => cache' # NoToken)
    /\ (cache' # cache =>
            \E r \in Slots : reqs[r].pc = "save" /\ reqs'[r].nPut = reqs[r].nPut + 1)

C15_NeverEmptied == [](C15_CacheKept) /\ [][C15_CacheStep]_vars

\* A refresh was rejected and the record is still there.
C15_Witness ==
    /\ cache # NoToken
    /\ \E r \in Slots :
        /\ reqs[r].resp = [status |-> 500, body |-> "SpotifyOauthError"]
        /\ reqs[r].nRefresh >= 1

\* C16: a refresh sends the cached refresh_token; when it succeeds, the
\* record it saves has the new access token and expiry and the refresh
\* token it sent, unless the response rotated it; no saved record lacks a
\* refresh token.
C16_RefreshStep ==
    \A r \in Slots :
        LET q == reqs[r]
            q1 == reqs'[r]
        IN  /\ (q1.pc = "refresh" /\ q.pc # "refresh" => q1.tok.refresh = cache.refresh)
            /\ (q.pc = "refresh" /\ q1.pc = "save" =>
                    /\ q1.tok.access = issued'
                    /\ q1.tok.refresh \in {q.tok.refresh, issued'}
                    /\ q1.tok.refresh > 0)
            /\ (q.pc = "save" /\ q1.pc # "save" =>
                    /\ cache'.refresh = q.tok.refresh
                    /\ cache'.access = q.tok.access
                    /\ cache'.refresh > 0)

C17_LoginAnswer ==
    \A r \in Slots :
        LET q == reqs[r]
        IN  q.route = "login" =>
                /\ Done(q)
                /\ q.resp = [status |-> 302, body |-> "authorize_url"]
                /\ q.gate = "none"
                /\ q.nRemote = 0
                /\ NoTokenTraffic(q)

C17_LoginStep ==
    \A r \in Slots :
        (reqs[r].pc = "idle" /\ reqs'[r].route = "login") =>
            /\ cache' = cache
            /\ codeState' = codeState
            /\ issued' = issued

C17_LoginSideEffectFree == [](C17_LoginAnswer) /\ [][C17_LoginStep]_vars

C17_Witness ==
    \E r \in Slots :
        /\ reqs[r].route = "login"
        /\ reqs[r].cache0 = "expired"
        /\ reqs[r].resp.status = 302

\* C18: on a gated route the gate comes before the input: a request the
\* gate turned away is answered 401 with its input never read, no request
\* that has not passed the gate is answered 400, and the 400
\* 'Missing ... parameter' body goes only to a request that passed it.
C18_GateBeforeValidation ==
    \A r \in Slots :
        LET q == reqs[r]
        IN  Gated(q) =>
                /\ (q.gate = "failed" =>
                        /\ Done(q)
                        /\ q.resp = [status |-> 401, body |-> NotAuthenticatedMsg])
                /\ (q.gate # "passed" => q.input = Unread /\ q.resp.status # 400)
                /\ (RequiresInput(q.route) /\ q.resp.body = MissingMsg(q.route) =>
                        q.gate = "passed" /\ q.resp.status = 400)

C18_Witness ==
    \E r \in Slots :
        /\ reqs[r].route = "add_to_playlist"
        /\ reqs[r].gate = "failed"
        /\ reqs[r].input = Unread
        /\ reqs[r].resp.status = 401

=============================================================================
